---- MODULE Spec2Model ----
(***************************************************************************)
(* Operational-transformation kernel of ot/text_operation.py.              *)
(*                                                                         *)
(* A document is a sequence of one-character strings.  An operation is a   *)
(* record tagged with its class (Retain, Insert, Delete); a TextOperation  *)
(* is modelled by its list `ops`.  A call either returns a value or raises *)
(* an exception; both outcomes are records built by Return and Raise.      *)
(***************************************************************************)
EXTENDS Integers, Sequences, FiniteSets, TLC

\* Largest size of an input: a document has at most MaxLen characters and the
\* elements of an operation sequence have sizes that sum to at most MaxLen,
\* the size of an element being its length, and 1 for an empty element.
MaxLen == 3

\* Characters of documents and of inserted texts.
Chars == {"a", "b"}

Min(x, y) == IF x < y THEN x ELSE y

----------------------------------------------------------------------------
(* The three operation classes.                                            *)

Retain(n) == [type |-> "Retain", n |-> n, str |-> <<>>]

Insert(str) == [type |-> "Insert", n |-> 0, str |-> str]

Delete(n) == [type |-> "Delete", n |-> n, str |-> <<>>]

\* Python's None, as the value of the pending elements a and b.
None == [type |-> "None", n |-> 0, str |-> <<>>]

\* __len__ of the three classes.
len(op) == IF op.type = "Insert" THEN Len(op.str) ELSE op.n

\* len_difference with Delete.len_difference returning len(self).
op_len_difference_unsigned(op) ==
    CASE op.type = "Retain" -> 0
      [] op.type = "Insert" -> len(op)
      [] op.type = "Delete" -> len(op)

\* len_difference of the three classes.
op_len_difference(op) ==
    CASE op.type = "Retain" -> 0
      [] op.type = "Insert" -> len(op)
      [] op.type = "Delete" -> 0 - len(op)

\* Python's s[i:j] for 0 <= i <= j: the slice is cut at the end of s.
Slice(s, i, j) ==
    IF i >= Min(j, Len(s)) THEN <<>> ELSE SubSeq(s, i + 1, Min(j, Len(s)))

\* Python's s[n:] for n >= 0.
SliceFrom(s, n) == Slice(s, n, Len(s))

shorten(op, n) ==
    CASE op.type = "Retain" -> Retain(op.n - n)
      [] op.type = "Insert" -> Insert(SliceFrom(op.str, n))
      [] op.type = "Delete" -> Delete(op.n - n)

\* merge with Insert.merge putting the other text first.
merge_other_first(op, other) ==
    CASE op.type = "Retain" -> Retain(op.n + other.n)
      [] op.type = "Insert" -> Insert(other.str \o op.str)
      [] op.type = "Delete" -> Delete(op.n + other.n)

merge(op, other) ==
    CASE op.type = "Retain" -> Retain(op.n + other.n)
      [] op.type = "Insert" -> Insert(op.str \o other.str)
      [] op.type = "Delete" -> Delete(op.n + other.n)

\* _shorten_ops keeping the longer a whole instead of shortening it.
shorten_ops_keep_a(a, b) ==
    IF len(a) = len(b) THEN <<None, None>>
    ELSE IF len(a) > len(b) THEN <<a, None>>
    ELSE <<None, shorten(b, len(a))>>

\* Shorten two ops by the part that cancels each other out.
shorten_ops(a, b) ==
    IF len(a) = len(b) THEN <<None, None>>
    ELSE IF len(a) > len(b) THEN <<shorten(a, len(b)), None>>
    ELSE <<None, shorten(b, len(a))>>

----------------------------------------------------------------------------
(* Outcomes of a call.                                                     *)

Return(value) == [kind |-> "return", msg |-> "", value |-> value]

Raise(kind, msg) == [kind |-> kind, msg |-> msg, value |-> <<>>]

\* The state of `result` before any call.
NoResult == [kind |-> "none", msg |-> "", value |-> <<>>]

----------------------------------------------------------------------------
(* TextOperation.                                                          *)

\* append without the merge into the last element.
append_no_merge(ops, op) ==
    IF len(op) = 0 THEN ops ELSE Append(ops, op)

\* TextOperation.append: drops a zero-length op, merges an op of the class of
\* the last element into it, appends any other op.
append(ops, op) ==
    IF len(op) = 0 THEN ops
    ELSE IF Len(ops) > 0 /\ ops[Len(ops)].type = op.type
         THEN Append(SubSeq(ops, 1, Len(ops) - 1), merge(ops[Len(ops)], op))
         ELSE Append(ops, op)

RECURSIVE len_difference(_)
len_difference(ops) ==
    IF ops = <<>> THEN 0
    ELSE op_len_difference(Head(ops)) + len_difference(Tail(ops))

\* call_end without the check that the cursor reached the end.
call_end_unchecked(doc, i, parts) == Return(parts)

\* The end of TextOperation.__call__: the cursor must have reached the end of
\* the document; the parts are joined.
call_end(doc, i, parts) ==
    IF i # Len(doc)
    THEN Raise("IncompatibleOperationError",
               "Cannot apply operation: operation is too short.")
    ELSE Return(parts)

\* The loop of TextOperation.__call__ over the elements not yet visited, with
\* cursor i and the parts joined so far.
RECURSIVE call_loop(_, _, _, _)
call_loop(ops, doc, i, parts) ==
    IF ops = <<>> THEN call_end(doc, i, parts)
    ELSE LET op == Head(ops) IN
         CASE op.type = "Retain" ->
                IF i + len(op) > Len(doc)
                THEN Raise("Exception",
                           "Cannot apply operation: operation is too long.")
                ELSE call_loop(Tail(ops), doc, i + len(op),
                               parts \o Slice(doc, i, i + len(op)))
           [] op.type = "Insert" ->
                call_loop(Tail(ops), doc, i, parts \o op.str)
           [] OTHER ->
                IF i + len(op) > Len(doc)
                THEN Raise("IncompatibleOperationError",
                           "Cannot apply operation: operation is too long.")
                ELSE call_loop(Tail(ops), doc, i + len(op), parts)

\* TextOperation.__call__: apply the operation to a document.
Call(ops, doc) == call_loop(ops, doc, 0, <<>>)

\* invert_op reading the deleted text at the start of the document instead
\* of at the cursor.
invert_op_no_cursor(op, doc, i) ==
    CASE op.type = "Retain" -> op
      [] op.type = "Insert" -> Delete(len(op))
      [] OTHER -> Insert(Slice(doc, 0, len(op)))

\* The op TextOperation.invert appends to the inverse for the element op met
\* at cursor i.
invert_op(op, doc, i) ==
    CASE op.type = "Retain" -> op
      [] op.type = "Insert" -> Delete(len(op))
      [] OTHER -> Insert(Slice(doc, i, i + len(op)))

\* The loop of TextOperation.invert, with cursor i and the inverse so far: an
\* Insert leaves the cursor, a Retain or a Delete moves it.
RECURSIVE invert_loop(_, _, _, _)
invert_loop(ops, doc, i, inverse) ==
    IF ops = <<>> THEN Return(inverse)
    ELSE LET op == Head(ops) IN
         invert_loop(Tail(ops), doc,
                     IF op.type = "Insert" THEN i ELSE i + len(op),
                     append(inverse, invert_op(op, doc, i)))

\* invert refusing a document whose length the operation does not fit.
invert_checked(ops, doc) ==
    IF Call(ops, doc).kind # "return"
    THEN Raise("IncompatibleOperationError",
               "Cannot invert operation: lengths differ.")
    ELSE invert_loop(ops, doc, 0, <<>>)

\* TextOperation.invert.
invert(ops, doc) == invert_loop(ops, doc, 0, <<>>)

\* next(iter, None) on the elements an iterator has not yet produced.
next(iter) == IF iter = <<>> THEN None ELSE Head(iter)

\* The iterator after next(iter, None).
advance(iter) == IF iter = <<>> THEN <<>> ELSE Tail(iter)

\* The aligned case of TextOperation.compose: what the pending elements a and
\* b, neither of them None, add to the composed operation.
compose_aligned(a, b, operation) ==
    LET min_len == Min(len(a), len(b)) IN
    CASE a.type = "Retain" /\ b.type = "Retain" ->
           append(operation, Retain(min_len))
      [] a.type = "Insert" /\ b.type = "Retain" ->
           append(operation, Insert(Slice(a.str, 0, min_len)))
      [] a.type = "Retain" /\ b.type = "Delete" ->
           append(operation, Delete(min_len))
      [] OTHER -> operation

\* The length check of TextOperation.compose, made once a is no Delete and b
\* no Insert: the error raised, or NoResult when a and b are both pending.
compose_incompatible(a, b) ==
    IF a = None
    THEN Raise("IncompatibleOperationError",
               "Cannot compose operations: first operation is too short")
    ELSE IF b = None
    THEN Raise("IncompatibleOperationError",
               "Cannot compose operations: first operation is too long")
    ELSE NoResult

\* The loop of TextOperation.compose: iter_a and iter_b are the elements not
\* yet fetched, a0 and b0 the pending elements at the top of an iteration.
RECURSIVE compose_loop(_, _, _, _, _)
compose_loop(iter_a, iter_b, a0, b0, operation) ==
    LET a == IF a0 = None THEN next(iter_a) ELSE a0
        b == IF b0 = None THEN next(iter_b) ELSE b0
        ia == IF a0 = None THEN advance(iter_a) ELSE iter_a
        ib == IF b0 = None THEN advance(iter_b) ELSE iter_b
        short == shorten_ops(a, b)
    IN  IF a = None /\ b = None THEN Return(operation)
        ELSE IF a.type = "Delete"
        THEN compose_loop(ia, ib, None, b, append(operation, a))
        ELSE IF b.type = "Insert"
        THEN compose_loop(ia, ib, a, None, append(operation, b))
        ELSE IF compose_incompatible(a, b) # NoResult
        THEN compose_incompatible(a, b)
        ELSE compose_loop(ia, ib, short[1], short[2],
                          compose_aligned(a, b, operation))

\* TextOperation.compose.
compose(ops, other) == compose_loop(ops, other, None, None, <<>>)

\* transform_aligned deleting on both sides a span that both operations
\* delete.
transform_aligned_double_delete(a, b, a_prime, b_prime) ==
    LET min_len == Min(len(a), len(b)) IN
    CASE a.type = "Retain" /\ b.type = "Retain" ->
           <<append(a_prime, Retain(min_len)), append(b_prime, Retain(min_len))>>
      [] a.type = "Delete" /\ b.type = "Retain" ->
           <<append(a_prime, Delete(min_len)), b_prime>>
      [] a.type = "Retain" /\ b.type = "Delete" ->
           <<a_prime, append(b_prime, Delete(min_len))>>
      [] OTHER -> <<append(a_prime, Delete(min_len)),
                    append(b_prime, Delete(min_len))>>

\* The aligned case of TextOperation.transform: the pair <<a_prime, b_prime>>
\* after the pending elements a and b, each a Retain or a Delete, are met.
transform_aligned(a, b, a_prime, b_prime) ==
    LET min_len == Min(len(a), len(b)) IN
    CASE a.type = "Retain" /\ b.type = "Retain" ->
           <<append(a_prime, Retain(min_len)), append(b_prime, Retain(min_len))>>
      [] a.type = "Delete" /\ b.type = "Retain" ->
           <<append(a_prime, Delete(min_len)), b_prime>>
      [] a.type = "Retain" /\ b.type = "Delete" ->
           <<a_prime, append(b_prime, Delete(min_len))>>
      [] OTHER -> <<a_prime, b_prime>>

\* The loop of TextOperation.transform.  With one side exhausted and the
\* other pending a Retain or a Delete, min(len(a), len(b)) takes the len of
\* None and raises TypeError.
RECURSIVE transform_loop(_, _, _, _, _, _)
transform_loop(iter_a, iter_b, a0, b0, a_prime, b_prime) ==
    LET a == IF a0 = None THEN next(iter_a) ELSE a0
        b == IF b0 = None THEN next(iter_b) ELSE b0
        ia == IF a0 = None THEN advance(iter_a) ELSE iter_a
        ib == IF b0 = None THEN advance(iter_b) ELSE iter_b
        short == shorten_ops(a, b)
        primes == transform_aligned(a, b, a_prime, b_prime)
    IN  IF a = None /\ b = None THEN Return(<<a_prime, b_prime>>)
        ELSE IF a.type = "Insert"
        THEN transform_loop(ia, ib, None, b,
                            append(a_prime, a), append(b_prime, Retain(len(a))))
        ELSE IF b.type = "Insert"
        THEN transform_loop(ia, ib, a, None,
                            append(a_prime, Retain(len(b))), append(b_prime, b))
        ELSE IF a = None \/ b = None
        THEN Raise("TypeError", "object of type 'NoneType' has no len()")
        ELSE transform_loop(ia, ib, short[1], short[2], primes[1], primes[2])

\* TextOperation.transform.
transform(operation_a, operation_b) ==
    transform_loop(operation_a, operation_b, None, None, <<>>, <<>>)

----------------------------------------------------------------------------
(* The loops of compose and transform, one iteration at a time.            *)

\* The state of a loop at the top of an iteration: the elements the two
\* iterators have not produced, the pending a and b, and how the loop ended
\* ("no" while it runs, "return" after the break, "raise" after an error).
LoopState(iter_a, iter_b, a, b, done) ==
    [iter_a |-> iter_a, iter_b |-> iter_b, a |-> a, b |-> b, done |-> done]

\* One iteration of compose that leaves the pending a and b as they are
\* after the aligned case, the result of _shorten_ops dropped.
compose_next_no_shorten(s) ==
    LET a == IF s.a = None THEN next(s.iter_a) ELSE s.a
        b == IF s.b = None THEN next(s.iter_b) ELSE s.b
        ia == IF s.a = None THEN advance(s.iter_a) ELSE s.iter_a
        ib == IF s.b = None THEN advance(s.iter_b) ELSE s.iter_b
    IN  IF a = None /\ b = None THEN LoopState(ia, ib, a, b, "return")
        ELSE IF a.type = "Delete" THEN LoopState(ia, ib, None, b, "no")
        ELSE IF b.type = "Insert" THEN LoopState(ia, ib, a, None, "no")
        ELSE IF compose_incompatible(a, b) # NoResult
        THEN LoopState(ia, ib, a, b, "raise")
        ELSE LoopState(ia, ib, a, b, "no")

\* One iteration of the loop of TextOperation.compose, on its iterators and
\* pending elements.
compose_next(s) ==
    LET a == IF s.a = None THEN next(s.iter_a) ELSE s.a
        b == IF s.b = None THEN next(s.iter_b) ELSE s.b
        ia == IF s.a = None THEN advance(s.iter_a) ELSE s.iter_a
        ib == IF s.b = None THEN advance(s.iter_b) ELSE s.iter_b
    IN  IF a = None /\ b = None THEN LoopState(ia, ib, a, b, "return")
        ELSE IF a.type = "Delete" THEN LoopState(ia, ib, None, b, "no")
        ELSE IF b.type = "Insert" THEN LoopState(ia, ib, a, None, "no")
        ELSE IF compose_incompatible(a, b) # NoResult
        THEN LoopState(ia, ib, a, b, "raise")
        ELSE LoopState(ia, ib, shorten_ops(a, b)[1], shorten_ops(a, b)[2], "no")

\* One iteration of the loop of TextOperation.transform, on its iterators and
\* pending elements.
transform_next(s) ==
    LET a == IF s.a = None THEN next(s.iter_a) ELSE s.a
        b == IF s.b = None THEN next(s.iter_b) ELSE s.b
        ia == IF s.a = None THEN advance(s.iter_a) ELSE s.iter_a
        ib == IF s.b = None THEN advance(s.iter_b) ELSE s.iter_b
    IN  IF a = None /\ b = None THEN LoopState(ia, ib, a, b, "return")
        ELSE IF a.type = "Insert" THEN LoopState(ia, ib, None, b, "no")
        ELSE IF b.type = "Insert" THEN LoopState(ia, ib, a, None, "no")
        ELSE IF a = None \/ b = None THEN LoopState(ia, ib, a, b, "raise")
        ELSE LoopState(ia, ib, shorten_ops(a, b)[1], shorten_ops(a, b)[2], "no")

\* The loop states of compose from s on, the last one after the loop ended
\* or after `fuel` iterations.
RECURSIVE compose_run(_, _)
compose_run(s, fuel) ==
    IF s.done # "no" \/ fuel = 0 THEN <<s>>
    ELSE <<s>> \o compose_run(compose_next(s), fuel - 1)

\* The loop states of transform from s on, likewise.
RECURSIVE transform_run(_, _)
transform_run(s, fuel) ==
    IF s.done # "no" \/ fuel = 0 THEN <<s>>
    ELSE <<s>> \o transform_run(transform_next(s), fuel - 1)

----------------------------------------------------------------------------
(* Objects: the same calls on references.  A heap holds the element        *)
(* objects and the list objects (the `ops` of each TextOperation), each    *)
(* known by its position; a TextOperation is known by its list.            *)

\* A heap with no object.
EmptyHeap == [objs |-> <<>>, lists |-> <<>>]

\* The reference None.
NoObject == 0

\* The list that is the default value of the parameter `ops` of
\* TextOperation.__init__, made once when the class is defined.
DefaultOps == 1

\* The element a reference leads to.
Obj(h, ref) == IF ref = NoObject THEN None ELSE h.objs[ref]

\* The elements of a list, by value.
Deref(h, ops) == [k \in 1..Len(h.lists[ops]) |-> h.objs[h.lists[ops][k]]]

\* A new element object: Retain(n), Insert(str), Delete(n).
new_object(h, op) ==
    [h |-> [h EXCEPT !.objs = Append(@, op)], ref |-> Len(h.objs) + 1]

\* TextOperation.__init__: self.ops is a copy of the list `ops`.
TextOperation_init(h, ops) ==
    [h |-> [h EXCEPT !.lists = Append(@, h.lists[ops])], ref |-> Len(h.lists) + 1]

\* merge adding the other element to self and returning self.
merge_in_place(h, self, other) ==
    [h |-> [h EXCEPT !.objs[self] = merge(h.objs[self], h.objs[other])],
     ref |-> self]

\* Retain.merge, Insert.merge, Delete.merge: a new element.
merge_object(h, self, other) ==
    new_object(h, merge(h.objs[self], h.objs[other]))

\* _shorten_ops on references: the remainder is a new element.
shorten_ops_objects(h, a, b) ==
    LET short == shorten_ops(h.objs[a], h.objs[b])
    IN  IF short[1] # None
        THEN LET r == new_object(h, short[1])
             IN  [h |-> r.h, a |-> r.ref, b |-> NoObject]
        ELSE IF short[2] # None
        THEN LET r == new_object(h, short[2])
             IN  [h |-> r.h, a |-> NoObject, b |-> r.ref]
        ELSE [h |-> h, a |-> NoObject, b |-> NoObject]

\* list.append.
list_append(h, ops, ref) == [h EXCEPT !.lists[ops] = Append(@, ref)]

\* list.pop.
list_pop(h, ops) ==
    [h |-> [h EXCEPT !.lists[ops] = SubSeq(@, 1, Len(@) - 1)],
     ref |-> h.lists[ops][Len(h.lists[ops])]]

\* TextOperation.append on references: the heap after self.append(op).
append_object(h, self, op) ==
    IF len(Obj(h, op)) = 0 THEN h
    ELSE IF /\ Len(h.lists[self]) > 0
            /\ Obj(h, h.lists[self][Len(h.lists[self])]).type = Obj(h, op).type
    THEN LET popped == list_pop(h, self)
             merged == merge_object(popped.h, popped.ref, op)
         IN  list_append(merged.h, self, merged.ref)
    ELSE list_append(h, self, op)

\* iter(self): a list and the number of its elements already produced.
list_iter(ops) == [ops |-> ops, pos |-> 0]

\* next(iter, None) on a list iterator.
next_object(h, it) ==
    IF it.pos < Len(h.lists[it.ops]) THEN h.lists[it.ops][it.pos + 1]
    ELSE NoObject

\* The list iterator after next(iter, None).
advance_object(h, it) ==
    IF it.pos < Len(h.lists[it.ops]) THEN [it EXCEPT !.pos = @ + 1] ELSE it

\* The outcome of a call on references: the heap it leaves, how it ended,
\* and what it returned.
Outcome(h, kind, msg, ref) == [h |-> h, kind |-> kind, msg |-> msg, ref |-> ref]

\* The loop of TextOperation.invert on references: a Retain goes into the
\* inverse as the object it is, a Delete or an Insert as a new element.
RECURSIVE invert_objects_loop(_, _, _, _, _)
invert_objects_loop(h, it, doc, i, inverse) ==
    LET ref == next_object(h, it)
        op == Obj(h, ref)
        made == new_object(h, invert_op(op, doc, i))
    IN  IF ref = NoObject THEN Outcome(h, "return", "", inverse)
        ELSE IF op.type = "Retain"
        THEN invert_objects_loop(append_object(h, inverse, ref),
                                 advance_object(h, it), doc, i + len(op), inverse)
        ELSE invert_objects_loop(append_object(made.h, inverse, made.ref),
                                 advance_object(h, it), doc,
                                 IF op.type = "Insert" THEN i ELSE i + len(op),
                                 inverse)

\* TextOperation.invert on references.
invert_objects(h, self, doc) ==
    LET inverse == TextOperation_init(h, DefaultOps)
    IN  invert_objects_loop(inverse.h, list_iter(self), doc, 0, inverse.ref)

\* The aligned case of TextOperation.compose on references: the element it
\* adds to the composed operation is a new one.
compose_aligned_objects(h, a, b, operation) ==
    LET min_len == Min(len(Obj(h, a)), len(Obj(h, b)))
        made == new_object(h,
                    CASE Obj(h, a).type = "Insert" -> Insert(Slice(Obj(h, a).str, 0, min_len))
                      [] Obj(h, b).type = "Delete" -> Delete(min_len)
                      [] OTHER -> Retain(min_len))
    IN  IF Obj(h, a).type = "Insert" /\ Obj(h, b).type = "Delete" THEN h
        ELSE append_object(made.h, operation, made.ref)

\* The loop of TextOperation.compose on references: a Delete of self and an
\* Insert of other go into the composed operation as the objects they are.
RECURSIVE compose_objects_loop(_, _, _, _, _, _)
compose_objects_loop(h, iter_a, iter_b, a0, b0, operation) ==
    LET a == IF a0 = NoObject THEN next_object(h, iter_a) ELSE a0
        b == IF b0 = NoObject THEN next_object(h, iter_b) ELSE b0
        ia == IF a0 = NoObject THEN advance_object(h, iter_a) ELSE iter_a
        ib == IF b0 = NoObject THEN advance_object(h, iter_b) ELSE iter_b
        error == compose_incompatible(Obj(h, a), Obj(h, b))
        short == shorten_ops_objects(compose_aligned_objects(h, a, b, operation), a, b)
    IN  IF a = NoObject /\ b = NoObject THEN Outcome(h, "return", "", operation)
        ELSE IF Obj(h, a).type = "Delete"
        THEN compose_objects_loop(append_object(h, operation, a),
                                  ia, ib, NoObject, b, operation)
        ELSE IF Obj(h, b).type = "Insert"
        THEN compose_objects_loop(append_object(h, operation, b),
                                  ia, ib, a, NoObject, operation)
        ELSE IF error # NoResult
        THEN Outcome(h, error.kind, error.msg, NoObject)
        ELSE compose_objects_loop(short.h, ia, ib, short.a, short.b, operation)

\* TextOperation.compose on references.
compose_objects(h, self, other) ==
    LET operation == TextOperation_init(h, DefaultOps)
    IN  compose_objects_loop(operation.h, list_iter(self), list_iter(other),
                             NoObject, NoObject, operation.ref)

\* The aligned case of TextOperation.transform on references: for two
\* Retains one new Retain goes into both a_prime and b_prime.
transform_aligned_objects(h, a, b, a_prime, b_prime) ==
    LET min_len == Min(len(Obj(h, a)), len(Obj(h, b)))
        min_retain == new_object(h, Retain(min_len))
        deleted == new_object(h, Delete(min_len))
    IN  CASE Obj(h, a).type = "Retain" /\ Obj(h, b).type = "Retain" ->
               append_object(append_object(min_retain.h, a_prime, min_retain.ref),
                             b_prime, min_retain.ref)
          [] Obj(h, a).type = "Delete" /\ Obj(h, b).type = "Retain" ->
               append_object(deleted.h, a_prime, deleted.ref)
          [] Obj(h, a).type = "Retain" /\ Obj(h, b).type = "Delete" ->
               append_object(deleted.h, b_prime, deleted.ref)
          [] OTHER -> h

\* The loop of TextOperation.transform on references: an Insert goes into
\* the result of its own side as the object it is, and into the other side
\* as a new Retain.
RECURSIVE transform_objects_loop(_, _, _, _, _, _, _)
transform_objects_loop(h, iter_a, iter_b, a0, b0, a_prime, b_prime) ==
    LET a == IF a0 = NoObject THEN next_object(h, iter_a) ELSE a0
        b == IF b0 = NoObject THEN next_object(h, iter_b) ELSE b0
        ia == IF a0 = NoObject THEN advance_object(h, iter_a) ELSE iter_a
        ib == IF b0 = NoObject THEN advance_object(h, iter_b) ELSE iter_b
        for_a == new_object(append_object(h, a_prime, a), Retain(len(Obj(h, a))))
        for_b == new_object(h, Retain(len(Obj(h, b))))
        short == shorten_ops_objects(
                     transform_aligned_objects(h, a, b, a_prime, b_prime), a, b)
    IN  IF a = NoObject /\ b = NoObject
        THEN Outcome(h, "return", "", <<a_prime, b_prime>>)
        ELSE IF Obj(h, a).type = "Insert"
        THEN transform_objects_loop(append_object(for_a.h, b_prime, for_a.ref),
                                    ia, ib, NoObject, b, a_prime, b_prime)
        ELSE IF Obj(h, b).type = "Insert"
        THEN transform_objects_loop(
                 append_object(append_object(for_b.h, a_prime, for_b.ref), b_prime, b),
                 ia, ib, a, NoObject, a_prime, b_prime)
        ELSE IF a = NoObject \/ b = NoObject
        THEN Outcome(h, "TypeError", "object of type 'NoneType' has no len()",
                     NoObject)
        ELSE transform_objects_loop(short.h, ia, ib, short.a, short.b,
                                    a_prime, b_prime)

\* TextOperation.transform on references.
transform_objects(h, operation_a, operation_b) ==
    LET a_prime == TextOperation_init(h, DefaultOps)
        b_prime == TextOperation_init(a_prime.h, DefaultOps)
    IN  transform_objects_loop(b_prime.h, list_iter(operation_a),
                               list_iter(operation_b), NoObject, NoObject,
                               a_prime.ref, b_prime.ref)

----------------------------------------------------------------------------
(* Inputs.                                                                 *)

\* The strings of k characters.
Texts(k) == [1..k -> Chars]

\* The operations of length k.  A count is a natural number and a text a
\* string: the values for which len(op) is defined.
OpsOfLen(k) == {Retain(k), Delete(k)} \cup {Insert(t) : t \in Texts(k)}

\* The operations that take k of the size of an input: those of length k,
\* and with them, for k = 1, the empty ones Retain(0), Insert("") and
\* Delete(0), which the constructors build like any other.
OpsOfSize(k) == OpsOfLen(k) \cup (IF k = 1 THEN OpsOfLen(0) ELSE {})

\* The operation sequences of size w: any list of operations, merged or not,
\* with empty elements or not, as the constructor TextOperation(ops) takes
\* it and copies it.
RECURSIVE SeqsOfSize(_)
SeqsOfSize(w) ==
    IF w = 0 THEN {<<>>}
    ELSE UNION {{<<op>> \o s : op \in OpsOfSize(k), s \in SeqsOfSize(w - k)} :
                k \in 1..w}

Seqs == UNION {SeqsOfSize(w) : w \in 0..MaxLen}

Docs == UNION {Texts(k) : k \in 0..MaxLen}

\* The length of the documents a sequence applies to: the sum of its Retain
\* and Delete lengths.
RECURSIVE InputLen(_)
InputLen(ops) ==
    IF ops = <<>> THEN 0
    ELSE (IF Head(ops).type = "Insert" THEN 0 ELSE len(Head(ops)))
         + InputLen(Tail(ops))

\* The length of the documents a sequence produces: the sum of its Retain and
\* Insert lengths.
RECURSIVE OutputLen(_)
OutputLen(ops) ==
    IF ops = <<>> THEN 0
    ELSE (IF Head(ops).type = "Delete" THEN 0 ELSE len(Head(ops)))
         + OutputLen(Tail(ops))

----------------------------------------------------------------------------
(* The calls of the library, each on the operands of the state.            *)

\* doc, op_a and op_b are the operands, pc the call made, result its outcome;
\* arg is the op given to the last append call on op_a, None before any.
VARIABLES doc, op_a, op_b, pc, result, arg, heap, refs

vars == <<doc, op_a, op_b, pc, result, arg, heap, refs>>

\* The references of a state: the operands, the sequences the call returned,
\* which of them a later append went to (0: none) and its list before it.
Refs(a, b, out) == [a |-> a, b |-> b, out |-> out, target |-> 0, before |-> <<>>]

\* No reference: the calls of the state are made on values.
NoRefs == Refs(NoObject, NoObject, <<>>)

\* op_a(doc)
Apply ==
    /\ pc = "start"
    /\ result' = Call(op_a, doc)
    /\ pc' = "apply"
    /\ UNCHANGED <<doc, op_a, op_b, arg, heap, refs>>

\* op_a.invert(doc)
Invert ==
    /\ pc = "start"
    /\ result' = invert(op_a, doc)
    /\ pc' = "invert"
    /\ UNCHANGED <<doc, op_a, op_b, arg, heap, refs>>

\* op_a.compose(op_b)
Compose ==
    /\ pc = "start"
    /\ result' = compose(op_a, op_b)
    /\ pc' = "compose"
    /\ UNCHANGED <<doc, op_a, op_b, arg, heap, refs>>

\* TextOperation.transform(op_a, op_b)
Transform ==
    /\ pc = "start"
    /\ result' = transform(op_a, op_b)
    /\ pc' = "transform"
    /\ UNCHANGED <<doc, op_a, op_b, arg, heap, refs>>

\* One sequence and one document, of any lengths.
InitApply ==
    /\ doc \in Docs
    /\ op_a \in Seqs
    /\ op_b = <<>>
    /\ pc = "start"
    /\ result = NoResult
    /\ arg = None
    /\ heap = EmptyHeap
    /\ refs = NoRefs

NextApply == Apply \/ Invert

SpecApply == InitApply /\ [][NextApply]_vars

\* Two sequences of any lengths, and no document.
InitPair ==
    /\ doc = <<>>
    /\ op_a \in Seqs
    /\ op_b \in Seqs
    /\ pc = "start"
    /\ result = NoResult
    /\ arg = None
    /\ heap = EmptyHeap
    /\ refs = NoRefs

NextPair == Compose \/ Transform

SpecPair == InitPair /\ [][NextPair]_vars

\* Sequential edits: op_a made on doc, op_b made on op_a(doc).
InitSequential ==
    /\ doc \in Docs
    /\ op_a \in {s \in Seqs : InputLen(s) = Len(doc)}
    /\ op_b \in {s \in Seqs : InputLen(s) = OutputLen(op_a)}
    /\ pc = "start"
    /\ result = NoResult
    /\ arg = None
    /\ heap = EmptyHeap
    /\ refs = NoRefs

NextSequential == Compose

SpecSequential == InitSequential /\ [][NextSequential]_vars

\* Concurrent edits: op_a and op_b both made on doc.
InitConcurrent ==
    /\ doc \in Docs
    /\ op_a \in {s \in Seqs : InputLen(s) = Len(doc)}
    /\ op_b \in {s \in Seqs : InputLen(s) = Len(doc)}
    /\ pc = "start"
    /\ result = NoResult
    /\ arg = None
    /\ heap = EmptyHeap
    /\ refs = NoRefs

NextConcurrent == Transform

SpecConcurrent == InitConcurrent /\ [][NextConcurrent]_vars

\* The sum of the lengths of the elements of a sequence.
RECURSIVE Weight(_)
Weight(ops) == IF ops = <<>> THEN 0 ELSE len(Head(ops)) + Weight(Tail(ops))

\* The ops given to append: of any class and any length from 0.
AppendOps == UNION {OpsOfLen(k) : k \in 0..MaxLen}

\* op_a.append(op), while the lengths of op_a sum to at most MaxLen.
AppendOp ==
    /\ pc = "start"
    /\ \E op \in AppendOps :
           /\ Weight(op_a) + len(op) <= MaxLen
           /\ op_a' = append(op_a, op)
           /\ arg' = op
    /\ UNCHANGED <<doc, op_b, pc, result, heap, refs>>

\* op_a.invert(d) on a document d that op_a fits.
InvertOn ==
    /\ pc = "start"
    /\ \E d \in Docs :
           /\ Len(d) = InputLen(op_a)
           /\ doc' = d
           /\ result' = invert(op_a, d)
    /\ pc' = "invert"
    /\ UNCHANGED <<op_a, op_b, arg, heap, refs>>

\* op_a.compose(other) with a sequence other made on the output of op_a.
ComposeWith ==
    /\ pc = "start"
    /\ \E other \in Seqs :
           /\ InputLen(other) = OutputLen(op_a)
           /\ op_b' = other
           /\ result' = compose(op_a, other)
    /\ pc' = "compose"
    /\ UNCHANGED <<doc, op_a, arg, heap, refs>>

\* TextOperation.transform(op_a, other) with a sequence other made on the
\* input of op_a.
TransformWith ==
    /\ pc = "start"
    /\ \E other \in Seqs :
           /\ InputLen(other) = InputLen(op_a)
           /\ op_b' = other
           /\ result' = transform(op_a, other)
    /\ pc' = "transform"
    /\ UNCHANGED <<doc, op_a, arg, heap, refs>>

\* A sequence built from TextOperation() by append calls, then used in a call.
InitAppend ==
    /\ doc = <<>>
    /\ op_a = <<>>
    /\ op_b = <<>>
    /\ pc = "start"
    /\ result = NoResult
    /\ arg = None
    /\ heap = EmptyHeap
    /\ refs = NoRefs

NextAppend == AppendOp \/ InvertOn \/ ComposeWith \/ TransformWith

SpecAppend == InitAppend /\ [][NextAppend]_vars

\* The sequences and the documents of the worked scenarios of the design
\* document, on "hello", "hi" and "ab".
ScenarioSeqs ==
    { <<Retain(5), Insert(<<" ", "w", "o", "r", "l", "d">>)>>,
      <<Delete(5)>>,
      <<Insert(<<"X">>), Retain(5)>>,
      <<Retain(5), Insert(<<"Y">>)>>,
      <<Retain(2), Delete(3)>>,
      <<Retain(2), Insert(<<"!">>)>>,
      <<Retain(10)>>,
      <<Insert(<<"1">>), Retain(2)>>,
      <<Insert(<<"2">>), Retain(2)>> }

ScenarioDocs == { <<"h", "e", "l", "l", "o">>, <<"h", "i">>, <<"a", "b">> }

InitScenario ==
    /\ doc \in ScenarioDocs
    /\ op_a \in ScenarioSeqs
    /\ op_b \in ScenarioSeqs
    /\ pc = "start"
    /\ result = NoResult
    /\ arg = None
    /\ heap = EmptyHeap
    /\ refs = NoRefs

NextScenario == Apply \/ Invert \/ Compose \/ Transform

SpecScenario == InitScenario /\ [][NextScenario]_vars

----------------------------------------------------------------------------
(* The calls on references: the operands are objects on the heap, the      *)
(* call leaves its result there, and one more element is then appended to  *)
(* a sequence the call returned.                                           *)

\* The operands and documents of the calls on references.
ObjectSeqs == UNION {SeqsOfSize(w) : w \in 0..(MaxLen - 1)}

ObjectDocs == UNION {Texts(k) : k \in 0..(MaxLen - 2)}

\* The ops appended to a returned sequence: of every class, empty or not.
ObjectAppendOps == OpsOfLen(0) \cup OpsOfLen(1)

\* The value of an outcome on references: what the call on values gives.
Value(r, value) == IF r.kind = "return" THEN Return(value) ELSE Raise(r.kind, r.msg)

\* op_a(doc) on references: the call reads the list and the document.
ApplyObjects ==
    /\ pc = "start"
    /\ refs.a # NoObject
    /\ result' = Call(Deref(heap, refs.a), doc)
    /\ pc' = "apply"
    /\ UNCHANGED <<doc, op_a, op_b, arg, heap, refs>>

\* op_a.invert(doc) on references.
InvertObjects ==
    /\ pc = "start"
    /\ refs.a # NoObject
    /\ LET r == invert_objects(heap, refs.a, doc)
       IN  /\ heap' = r.h
           /\ refs' = [refs EXCEPT !.out = <<r.ref>>]
           /\ result' = Value(r, Deref(r.h, r.ref))
    /\ pc' = "invert"
    /\ UNCHANGED <<doc, op_a, op_b, arg>>

\* op_a.compose(op_b) on references.
ComposeObjects ==
    /\ pc = "start"
    /\ refs.a # NoObject
    /\ LET r == compose_objects(heap, refs.a, refs.b)
       IN  /\ heap' = r.h
           /\ refs' = [refs EXCEPT
                          !.out = IF r.kind = "return" THEN <<r.ref>> ELSE <<>>]
           /\ result' = Value(r, Deref(r.h, r.ref))
    /\ pc' = "compose"
    /\ UNCHANGED <<doc, op_a, op_b, arg>>

\* TextOperation.transform(op_a, op_b) on references.
TransformObjects ==
    /\ pc = "start"
    /\ refs.a # NoObject
    /\ LET r == transform_objects(heap, refs.a, refs.b)
       IN  /\ heap' = r.h
           /\ refs' = [refs EXCEPT
                          !.out = IF r.kind = "return" THEN r.ref ELSE <<>>]
           /\ result' = Value(r, <<Deref(r.h, r.ref[1]), Deref(r.h, r.ref[2])>>)
    /\ pc' = "transform"
    /\ UNCHANGED <<doc, op_a, op_b, arg>>

\* returned.append(op), once, on a sequence the call returned.
AppendObject ==
    /\ pc \in {"invert", "compose", "transform"}
    /\ \E k \in 1..Len(refs.out), op \in ObjectAppendOps :
           LET made == new_object(heap, op)
           IN  /\ heap' = append_object(made.h, refs.out[k], made.ref)
               /\ refs' = [refs EXCEPT !.target = k,
                                       !.before = heap.lists[refs.out[k]]]
               /\ arg' = op
    /\ pc' = "appended"
    /\ UNCHANGED <<doc, op_a, op_b, result>>

\* The operands as the caller built them: the default list of the
\* constructor, then the list of op_a and the list of op_b, each of its own
\* elements.
InitObjects ==
    /\ doc \in ObjectDocs
    /\ op_a \in ObjectSeqs
    /\ op_b \in ObjectSeqs
    /\ pc = "start"
    /\ result = NoResult
    /\ arg = None
    /\ heap = [objs |-> op_a \o op_b,
               lists |-> << <<>>,
                            [k \in 1..Len(op_a) |-> k],
                            [k \in 1..Len(op_b) |-> Len(op_a) + k] >>]
    /\ refs = Refs(DefaultOps + 1, DefaultOps + 2, <<>>)

NextObjects ==
    ApplyObjects \/ InvertObjects \/ ComposeObjects \/ TransformObjects
        \/ AppendObject

SpecObjects == InitObjects /\ [][NextObjects]_vars

----------------------------------------------------------------------------
(* Vocabulary of the properties.                                           *)

\* S applies to D without error.
Valid(ops, d) == Call(ops, d).kind = "return"

HasType(ops, t) == \E k \in 1..Len(ops) : ops[k].type = t

\* Normal form: no zero-length element, no two adjacent elements of the same
\* class.
NormalForm(ops) ==
    \A k \in 1..Len(ops) :
        /\ len(ops[k]) > 0
        /\ k < Len(ops) => ops[k].type # ops[k + 1].type

\* A sequence with every run of adjacent Insert and Delete elements replaced
\* by one Insert of the texts followed by one Delete of the lengths: text and
\* n are the text and the length of the run being read, out the part done.
RECURSIVE CanonLoop(_, _, _, _)
CanonLoop(ops, text, n, out) ==
    LET flushed == append(append(out, Insert(text)), Delete(n)) IN
    IF ops = <<>> THEN flushed
    ELSE CASE Head(ops).type = "Retain" ->
                CanonLoop(Tail(ops), <<>>, 0, append(flushed, Head(ops)))
           [] Head(ops).type = "Insert" ->
                CanonLoop(Tail(ops), text \o Head(ops).str, n, out)
           [] OTHER ->
                CanonLoop(Tail(ops), text, n + len(Head(ops)), out)

Canon(ops) == CanonLoop(ops, <<>>, 0, <<>>)

\* The elements of a side a loop has not wholly consumed: those its iterator
\* has not produced and the pending one.
Remaining(iter, pending) == Len(iter) + (IF pending = None THEN 0 ELSE 1)

\* From loop state s to loop state t an iteration consumed a whole element
\* of one side, or left the pending element of one side strictly shorter.
Progress(s, t) ==
    \/ Remaining(t.iter_a, t.a) < Remaining(s.iter_a, s.a)
    \/ Remaining(t.iter_b, t.b) < Remaining(s.iter_b, s.b)
    \/ s.a # None /\ t.a # None /\ t.iter_a = s.iter_a /\ len(t.a) < len(s.a)
    \/ s.b # None /\ t.b # None /\ t.iter_b = s.iter_b /\ len(t.b) < len(s.b)

\* A run of a loop on op_a and op_b ended, by return or by raise, within
\* one iteration for each element and one more, every iteration before the
\* last making progress.
Terminates(run) ==
    /\ run[Len(run)].done # "no"
    /\ Len(run) - 1 <= Len(op_a) + Len(op_b) + 1
    /\ \A k \in 1..(Len(run) - 2) : Progress(run[k], run[k + 1])

\* More iterations than a loop on op_a and op_b can take.
Fuel == Len(op_a) + Len(op_b) + 2

\* The pair returned by transform(op_a, op_b), in a state where it returned.
APrime == result.value[1]
BPrime == result.value[2]

\* The text S inserts at offset k of its input document: the texts of its
\* Insert elements met when the cursor, starting at i, stands at k.
RECURSIVE InsertedAt(_, _, _)
InsertedAt(ops, i, k) ==
    IF ops = <<>> THEN <<>>
    ELSE IF Head(ops).type = "Insert"
    THEN (IF i = k THEN Head(ops).str ELSE <<>>) \o InsertedAt(Tail(ops), i, k)
    ELSE InsertedAt(Tail(ops), i + len(Head(ops)), k)

\* The number of characters S inserts at offsets below k.
RECURSIVE InsertedBefore(_, _, _)
InsertedBefore(ops, i, k) ==
    IF ops = <<>> THEN 0
    ELSE IF Head(ops).type = "Insert"
    THEN (IF i < k THEN len(Head(ops)) ELSE 0) + InsertedBefore(Tail(ops), i, k)
    ELSE InsertedBefore(Tail(ops), i + len(Head(ops)), k)

\* The offsets of the input document that S retains.
RECURSIVE Retained(_, _)
Retained(ops, i) ==
    IF ops = <<>> THEN {}
    ELSE IF Head(ops).type = "Insert" THEN Retained(Tail(ops), i)
    ELSE (IF Head(ops).type = "Retain"
          THEN i .. (i + len(Head(ops)) - 1) ELSE {})
         \cup Retained(Tail(ops), i + len(Head(ops)))

\* Where the text inserted at offset k starts in the converged document:
\* after the characters below k that both operations retain and the texts
\* both insert below k.
ConvergedStart(k) ==
    Cardinality({q \in Retained(op_a, 0) \cap Retained(op_b, 0) : q < k})
    + InsertedBefore(op_a, 0, k) + InsertedBefore(op_b, 0, k)

\* op_a and op_b both insert at offset k of doc.
BothInsertAt(k) ==
    InsertedAt(op_a, 0, k) # <<>> /\ InsertedAt(op_b, 0, k) # <<>>

----------------------------------------------------------------------------
(* Properties.                                                             *)

\* C1 - Transform convergence, apply form: when op_a and op_b both apply to
\* doc and (a', b') = transform(op_a, op_b), then b' applies to op_a(doc), a'
\* applies to op_b(doc), and the two documents are the same.
C1_TransformConvergenceApply ==
    (pc = "transform" /\ Valid(op_a, doc) /\ Valid(op_b, doc)) =>
        /\ result.kind = "return"
        /\ LET left == Call(BPrime, Call(op_a, doc).value)
               right == Call(APrime, Call(op_b, doc).value)
           IN  /\ left.kind = "return"
               /\ right.kind = "return"
               /\ left.value = right.value

\* C2 - Transform convergence, compose form: when op_a and op_b both apply to
\* doc and (a', b') = transform(op_a, op_b), then compose(op_a, b') and
\* compose(op_b, a') raise no error and yield the same document from doc.
C2_TransformConvergenceCompose ==
    (pc = "transform" /\ Valid(op_a, doc) /\ Valid(op_b, doc)) =>
        /\ result.kind = "return"
        /\ LET left == compose(op_a, BPrime)
               right == compose(op_b, APrime)
           IN  /\ left.kind = "return"
               /\ right.kind = "return"
               /\ Call(left.value, doc).kind = "return"
               /\ Call(left.value, doc) = Call(right.value, doc)

\* C3 - Invert round trip: when op_a applies to doc, op_a.invert(doc) applies
\* to op_a(doc) and returns doc.
C3_InvertRoundTrip ==
    (pc = "invert" /\ Valid(op_a, doc)) =>
        /\ result.kind = "return"
        /\ Call(result.value, Call(op_a, doc).value) = Return(doc)

\* A state of C3 where op_a deletes text after a retained or deleted prefix
\* and inserts, so the inverse re-inserts text read at a cursor beyond 0.
C3_Witness ==
    /\ pc = "invert" /\ Valid(op_a, doc)
    /\ result.kind = "return"
    /\ HasType(op_a, "Insert")
    /\ \E k \in 2..Len(op_a) :
           op_a[k].type = "Delete" /\ InputLen(SubSeq(op_a, 1, k - 1)) > 0
    /\ Call(op_a, doc).value # doc

\* C4 - Compose equivalence: when op_a applies to doc and op_b applies to
\* op_a(doc), compose(op_a, op_b) raises no error, applies to doc, and yields
\* op_b(op_a(doc)).
C4_ComposeEquivalence ==
    (pc = "compose" /\ Valid(op_a, doc)
        /\ Valid(op_b, Call(op_a, doc).value)) =>
        /\ result.kind = "return"
        /\ Call(result.value, doc).kind = "return"
        /\ Call(result.value, doc) = Call(op_b, Call(op_a, doc).value)

\* C5 - Insert tie-break: when op_a inserts s and op_b inserts t at the same
\* offset k of doc, the converged document b'(op_a(doc)), and equally
\* a'(op_b(doc)), holds s immediately followed by t at the place of offset k.
C5_InsertTieBreak ==
    (pc = "transform" /\ Valid(op_a, doc) /\ Valid(op_b, doc)) =>
        \A k \in 0..Len(doc) :
            BothInsertAt(k) =>
                LET s == InsertedAt(op_a, 0, k)
                    t == InsertedAt(op_b, 0, k)
                    p == ConvergedStart(k)
                    left == Call(BPrime, Call(op_a, doc).value)
                    right == Call(APrime, Call(op_b, doc).value)
                IN  /\ result.kind = "return"
                    /\ left.kind = "return" /\ right.kind = "return"
                    /\ Slice(left.value, p, p + Len(s) + Len(t)) = s \o t
                    /\ Slice(right.value, p, p + Len(s) + Len(t)) = s \o t

\* C6 - Apply succeeds exactly on length-matching input: op_a(doc) returns a
\* document if and only if the Retain and Delete lengths of op_a sum to
\* len(doc); a longer op_a fails as too long, a shorter one as too short, and
\* a failure returns no document.
C6_ApplyLengthMatch ==
    pc = "apply" =>
        /\ result.kind = "return" <=> InputLen(op_a) = Len(doc)
        /\ InputLen(op_a) > Len(doc) =>
               result.msg = "Cannot apply operation: operation is too long."
        /\ InputLen(op_a) < Len(doc) =>
               result.msg = "Cannot apply operation: operation is too short."
        /\ result.kind # "return" => result.value = <<>>

\* A state of C6 where a Retain fitted the document and a later Delete ran
\* past its end.
C6_Witness ==
    /\ pc = "apply"
    /\ result.kind # "return"
    /\ Len(doc) > 0 /\ InputLen(op_a) > Len(doc)
    /\ op_a[1].type = "Retain" /\ len(op_a[1]) <= Len(doc)
    /\ op_a[Len(op_a)].type = "Delete"

\* C7 - Single error kind in apply: every failure of op_a(doc) is an
\* IncompatibleOperationError.
C7_ApplySingleErrorKind ==
    (pc = "apply" /\ result.kind # "return") =>
        result.kind = "IncompatibleOperationError"

\* C8 - Compose error condition: compose(op_a, op_b) fails with
\* IncompatibleOperationError if and only if the output length of op_a differs
\* from the input length of op_b, as "too short" when it is smaller and as
\* "too long" when it is larger; otherwise it returns, and a failure returns
\* no sequence.
C8_ComposeErrorCondition ==
    pc = "compose" =>
        /\ result.kind \in {"return", "IncompatibleOperationError"}
        /\ result.kind = "IncompatibleOperationError"
               <=> OutputLen(op_a) # InputLen(op_b)
        /\ OutputLen(op_a) < InputLen(op_b) =>
               result.msg
                 = "Cannot compose operations: first operation is too short"
        /\ OutputLen(op_a) > InputLen(op_b) =>
               result.msg
                 = "Cannot compose operations: first operation is too long"
        /\ result.kind # "return" => result.value = <<>>

\* C9 - Transform is total on length-compatible inputs: when the input
\* lengths of op_a and op_b are equal, transform(op_a, op_b) returns a pair
\* and raises nothing.
C9_TransformTotal ==
    (pc = "transform" /\ InputLen(op_a) = InputLen(op_b)) =>
        /\ result.kind = "return"
        /\ Len(result.value) = 2

\* C10 as stated - Invert reports length mismatch: when the Retain and Delete
\* lengths of op_a do not sum to len(doc), op_a.invert(doc) fails with an
\* IncompatibleOperationError.
C10_InvertReportsMismatch ==
    (pc = "invert" /\ InputLen(op_a) # Len(doc)) =>
        result.kind = "IncompatibleOperationError"

\* C10 as amended - Invert checks no length: when the Retain and Delete
\* lengths of op_a do not sum to len(doc), op_a.invert(doc) raises nothing
\* and returns a sequence, whose input length is the output length of op_a
\* and whose Insert texts are the parts of the deleted spans that lie inside
\* doc.
C10_InvertIgnoresMismatch ==
    (pc = "invert" /\ InputLen(op_a) # Len(doc)) =>
        /\ result.kind = "return"
        /\ InputLen(result.value) = OutputLen(op_a)
        /\ OutputLen(result.value)
             = Cardinality(Retained(op_a, 0))
               + Cardinality({q \in 0..(Len(doc) - 1) :
                                q < InputLen(op_a) /\ q \notin Retained(op_a, 0)})

\* A state of C10 where op_a deletes beyond the end of doc and invert
\* returned an inverse with a cut text.
C10_Witness ==
    /\ pc = "invert" /\ InputLen(op_a) > Len(doc)
    /\ result.kind = "return"
    /\ Len(doc) > 0
    /\ HasType(op_a, "Delete") /\ HasType(op_a, "Insert")
    /\ HasType(result.value, "Insert")

\* C11 - Normal form invariant: after every append of a series that starts
\* from the empty sequence, op_a has no zero-length element and no two
\* adjacent elements of the same class; so have the sequences that invert,
\* compose and transform return.
C11_NormalFormInvariant ==
    /\ NormalForm(op_a)
    /\ (pc \in {"invert", "compose"} /\ result.kind = "return") =>
           NormalForm(result.value)
    /\ (pc = "transform" /\ result.kind = "return") =>
           NormalForm(APrime) /\ NormalForm(BPrime)

\* A state of C11 where the last append merged its op into the last of
\* several elements, after an append of a zero-length op was possible.
C11_Witness ==
    /\ pc = "start"
    /\ Len(op_a) >= 2
    /\ len(arg) > 0
    /\ arg.type = op_a[Len(op_a)].type
    /\ len(op_a[Len(op_a)]) > len(arg)

\* C12 - Length accounting: when op_a applies to doc,
\* len(op_a(doc)) = len(doc) + op_a.len_difference().
C12_LengthAccounting ==
    (pc = "apply" /\ result.kind = "return") =>
        Len(result.value) = Len(doc) + len_difference(op_a)

\* A state of C12 where op_a inserts and deletes and changes the length.
C12_Witness ==
    /\ pc = "apply" /\ result.kind = "return"
    /\ HasType(op_a, "Insert") /\ HasType(op_a, "Delete")
    /\ Len(result.value) < Len(doc)

\* C13 as stated - Scenario 3: transform of [Insert("X"), Retain(5)] and
\* [Retain(5), Insert("Y")] returns [Insert("X"), Retain(5), Retain(1)] and
\* [Retain(1), Retain(5), Insert("Y")].
C13_ScenarioUnmerged ==
    (/\ pc = "transform"
     /\ op_a = <<Insert(<<"X">>), Retain(5)>>
     /\ op_b = <<Retain(5), Insert(<<"Y">>)>>) =>
        result = Return(<< <<Insert(<<"X">>), Retain(5), Retain(1)>>,
                           <<Retain(1), Retain(5), Insert(<<"Y">>)>> >>)

\* C13 as amended - Scenario 3: the same transform returns
\* [Insert("X"), Retain(6)] and [Retain(6), Insert("Y")], the adjacent Retains
\* merged by append.
C13_ScenarioMerged ==
    (/\ pc = "transform"
     /\ op_a = <<Insert(<<"X">>), Retain(5)>>
     /\ op_b = <<Retain(5), Insert(<<"Y">>)>>) =>
        result = Return(<< <<Insert(<<"X">>), Retain(6)>>,
                           <<Retain(6), Insert(<<"Y">>)>> >>)

\* The state of C13: scenario 3 transformed, on "hello".
C13_Witness ==
    /\ pc = "transform"
    /\ doc = <<"h", "e", "l", "l", "o">>
    /\ op_a = <<Insert(<<"X">>), Retain(5)>>
    /\ op_b = <<Retain(5), Insert(<<"Y">>)>>
    /\ result.kind = "return"

\* C15 - Merge on append: an append of a non-zero-length op to a sequence
\* that one op of the same class made leaves one element of that class,
\* whose length is the sum of the two lengths and, for Insert, whose text is
\* the first text followed by the second; an append of a zero-length op to
\* any sequence leaves the sequence unchanged.
C15_MergeOnAppend ==
    [][(pc = "start" /\ pc' = "start") =>
          /\ len(arg') = 0 => op_a' = op_a
          /\ (Len(op_a) = 1 /\ len(arg') > 0 /\ arg'.type = op_a[1].type) =>
                 /\ Len(op_a') = 1
                 /\ op_a'[1].type = arg'.type
                 /\ len(op_a'[1]) = len(op_a[1]) + len(arg')
                 /\ arg'.type = "Insert" =>
                        op_a'[1].str = op_a[1].str \o arg'.str]_vars

\* A state of C15 where two Insert ops of different texts were appended to
\* the empty sequence and merged.
C15_Witness ==
    /\ pc = "start"
    /\ Len(op_a) = 1
    /\ arg.type = "Insert" /\ op_a[1].type = "Insert"
    /\ Len(arg.str) = 1 /\ Len(op_a[1].str) = 2
    /\ op_a[1].str[1] # op_a[1].str[2]

\* C16 as stated - Convergence as operations: for normal-form op_a and op_b
\* valid on doc and (a', b') = transform(op_a, op_b), compose(op_a, b') and
\* compose(op_b, a') have the same elements in the same order.
C16_ConvergenceAsOperations ==
    (/\ pc = "transform" /\ Valid(op_a, doc) /\ Valid(op_b, doc)
     /\ NormalForm(op_a) /\ NormalForm(op_b)) =>
        /\ result.kind = "return"
        /\ compose(op_a, BPrime) = compose(op_b, APrime)

\* C16 as amended - for normal-form op_a and op_b valid on doc,
\* compose(op_a, b') and compose(op_b, a') have the same elements in the same
\* order once each run of adjacent Insert and Delete elements is put in one
\* order, the Insert first: they may differ in the order of an Insert and a
\* Delete made at the same place, and in nothing else.
C16_ConvergenceUpToEditOrder ==
    (/\ pc = "transform" /\ Valid(op_a, doc) /\ Valid(op_b, doc)
     /\ NormalForm(op_a) /\ NormalForm(op_b)) =>
        /\ result.kind = "return"
        /\ LET left == compose(op_a, BPrime)
               right == compose(op_b, APrime)
           IN  /\ left.kind = "return"
               /\ right.kind = "return"
               /\ Canon(left.value) = Canon(right.value)

\* A state of C16 where the two composed operations differ, one deleting
\* before it inserts and the other inserting before it deletes.
C16_Witness ==
    /\ pc = "transform" /\ Valid(op_a, doc) /\ Valid(op_b, doc)
    /\ NormalForm(op_a) /\ NormalForm(op_b)
    /\ result.kind = "return"
    /\ compose(op_a, BPrime).kind = "return"
    /\ compose(op_b, APrime).kind = "return"
    /\ compose(op_a, BPrime).value # compose(op_b, APrime).value
    /\ Canon(compose(op_a, BPrime).value) = Canon(compose(op_b, APrime).value)

\* C17 - Termination of the co-traversals: on any op_a and op_b the loops
\* of compose and of transform end after at most len(op_a.ops) +
\* len(op_b.ops) + 1 iterations, by return or by raise as the call did; every
\* iteration before the last consumes a whole element of one side or
\* strictly shortens the pending element of one side.
C17_LoopsTerminate ==
    /\ pc = "compose" =>
           LET run == compose_run(LoopState(op_a, op_b, None, None, "no"), Fuel)
           IN  /\ Terminates(run)
               /\ run[Len(run)].done = "return" <=> result.kind = "return"
    /\ pc = "transform" =>
           LET run == transform_run(LoopState(op_a, op_b, None, None, "no"), Fuel)
           IN  /\ Terminates(run)
               /\ run[Len(run)].done = "return" <=> result.kind = "return"

\* A state of C17 where compose met elements that do not line up, shortened
\* a pending element, and raised after several iterations.
C17_Witness ==
    /\ pc = "compose"
    /\ result.kind = "IncompatibleOperationError"
    /\ LET run == compose_run(LoopState(op_a, op_b, None, None, "no"), Fuel)
       IN  /\ Len(run) >= 4
           /\ \E k \in 1..Len(run) :
                  run[k].a # None /\ run[k].a \notin {op_a[i] : i \in 1..Len(op_a)}

\* C18 - Transformed operations fit the other side's result: when op_a and
\* op_b have the same input length L, transform returns (A', B') where the
\* input length of A' is the output length of op_b, which is
\* L + op_b.len_difference(), the input length of B' is the output length of
\* op_a, and A' and B' have the same output length.
C18_TransformedLengthsFit ==
    (pc = "transform" /\ InputLen(op_a) = InputLen(op_b)) =>
        /\ result.kind = "return"
        /\ InputLen(APrime) = OutputLen(op_b)
        /\ InputLen(APrime) = InputLen(op_b) + len_difference(op_b)
        /\ InputLen(BPrime) = OutputLen(op_a)
        /\ InputLen(BPrime) = InputLen(op_a) + len_difference(op_a)
        /\ OutputLen(APrime) = OutputLen(BPrime)

\* C19 - Mismatched bases never yield a result: when the input lengths of
\* op_a and op_b differ, transform returns no pair; its loop stops in an
\* iteration where one side is exhausted and the other has a Retain or a
\* Delete pending, and what it raises is not IncompatibleOperationError.
C19_MismatchedBasesAbort ==
    (pc = "transform" /\ InputLen(op_a) # InputLen(op_b)) =>
        LET run == transform_run(LoopState(op_a, op_b, None, None, "no"), Fuel)
            last == run[Len(run)]
        IN  /\ result.kind \notin {"return", "IncompatibleOperationError"}
            /\ result.kind = "TypeError"
            /\ last.done = "raise"
            /\ \/ last.a = None /\ last.b.type \in {"Retain", "Delete"}
               \/ last.b = None /\ last.a.type \in {"Retain", "Delete"}

\* A state of C19 where transform raised after it had shortened an element:
\* the side left pending holds the rest of a Delete.
C19_Witness ==
    /\ pc = "transform"
    /\ InputLen(op_a) # InputLen(op_b)
    /\ result.kind = "TypeError"
    /\ LET run == transform_run(LoopState(op_a, op_b, None, None, "no"), Fuel)
           last == run[Len(run)]
       IN  /\ Len(run) >= 3
           /\ last.b = None
           /\ last.a.type = "Delete"
           /\ last.a \notin {op_a[i] : i \in 1..Len(op_a)}

\* The sequence built by appending Retain(n) to an empty sequence.
Identity(n) == append(<<>>, Retain(n))

\* C20 - Transform against a no-op: for a normal-form A with input length L
\* and output length T, transform(A, I_L) returns (A, I_T) and
\* transform(I_L, A) returns (I_T, A), element by element, I_n being the
\* sequence built by appending Retain(n) to an empty sequence.
C20_TransformAgainstNoOp ==
    /\ (pc = "transform" /\ NormalForm(op_a)
            /\ op_b = Identity(InputLen(op_a))) =>
           result = Return(<<op_a, Identity(OutputLen(op_a))>>)
    /\ (pc = "transform" /\ NormalForm(op_b)
            /\ op_a = Identity(InputLen(op_b))) =>
           result = Return(<<Identity(OutputLen(op_b)), op_b>>)

\* A state of C20 where a normal-form sequence that retains, inserts and
\* deletes was transformed against the no-op of its input length.
C20_Witness ==
    /\ pc = "transform"
    /\ NormalForm(op_a)
    /\ HasType(op_a, "Retain") /\ HasType(op_a, "Insert") /\ HasType(op_a, "Delete")
    /\ op_b = Identity(InputLen(op_a))
    /\ result = Return(<<op_a, Identity(OutputLen(op_a))>>)

\* On references a call gives what it gives on values.
ObjectsAgree ==
    /\ pc = "apply" => result = Call(op_a, doc)
    /\ pc = "invert" => result = invert(op_a, doc)
    /\ pc = "compose" => result = compose(op_a, op_b)
    /\ pc = "transform" => result = transform(op_a, op_b)

\* The elements of the sequences a call returned other than the k-th.
OtherReturned(h, k) ==
    [j \in 1..Len(refs.out) |-> IF j = k THEN <<>> ELSE Deref(h, refs.out[j])]

\* C14 - Inputs are never mutated: apply, invert, compose and transform,
\* returning or raising, leave the element lists of op_a and op_b and the
\* document as they were; an append to a sequence a call returned leaves
\* them so too, and leaves the other sequence the same transform returned as
\* it was, although the sequences share elements.
C14_InputsNeverMutated ==
    [][refs.a # NoObject =>
          /\ doc' = doc
          /\ Deref(heap', refs.a) = Deref(heap, refs.a)
          /\ Deref(heap', refs.b) = Deref(heap, refs.b)
          /\ Deref(heap', refs.a) = op_a
          /\ Deref(heap', refs.b) = op_b
          /\ pc' = "appended" =>
                 OtherReturned(heap', refs'.target) = OtherReturned(heap, refs'.target)]_vars

\* A state of C14 after an append to a sequence transform returned, where
\* the appended element was merged into the last element of that sequence,
\* an object that is also an element of the other returned sequence.
C14_Witness ==
    /\ pc = "appended"
    /\ Len(refs.out) = 2
    /\ refs.before # <<>>
    /\ len(arg) > 0
    /\ LET last == refs.before[Len(refs.before)]
           other == heap.lists[refs.out[3 - refs.target]]
       IN  /\ arg.type = heap.objs[last].type
           /\ \E j \in 1..Len(other) : other[j] = last
           /\ last \notin {heap.lists[refs.out[refs.target]][j] :
                              j \in 1..Len(heap.lists[refs.out[refs.target]])}

====
